---- MODULE Spec2Model ----
(***************************************************************************)
(* The Gallery component of src/components/Gallery.tsx as a state machine. *)
(*                                                                         *)
(* The five useState cells are variables.  The loader (the async function  *)
(* fetchImages of the mount effect) is a process with a position pc that   *)
(* is resumed when the promise it awaits has settled.  The keydown         *)
(* listeners attached to window are kept with the values their closures    *)
(* captured.  A state update, the render it causes and the effects of that *)
(* render are one step: React renders a discrete event (click, keydown)    *)
(* and flushes its effects before the next event is dispatched.            *)
(*                                                                         *)
(* Indices are 0-based as in the source; images[i] of the source is        *)
(* images[i + 1] here.  A nullable number is <<>> (null) or <<i>>.         *)
(***************************************************************************)
EXTENDS Integers, Sequences, FiniteSets, TLC

VARIABLES
    images,              \* useState<GalleryImage[]>([])
    selectedImage,       \* useState<string | null>(null)
    selectedImageIndex,  \* useState<number | null>(null)
    loading,             \* useState(true)
    error,               \* useState<string | null>(null)
    mounted,             \* the component instance is mounted
    pc,                  \* position of fetchImages
    fetchPromise,        \* the promise of fetch('/api/gallery')
    jsonPromise,         \* the promise of response.json()
    loaderPromise,       \* the promise fetchImages() returns
    caught,              \* <<>> or <<err>>: what the catch block received
    fetchCount,          \* number of requests issued
    setImagesCalls,      \* number of calls of setImages
    listeners,           \* keydown listeners on window, with their closures
    lastEvent            \* the last event handled (trace only)

vars == <<images, selectedImage, selectedImageIndex, loading, error, mounted,
          pc, fetchPromise, jsonPromise, loaderPromise, caught, fetchCount,
          setImagesCalls, listeners, lastEvent>>

loaderVars == <<pc, fetchPromise, jsonPromise, loaderPromise, caught,
                fetchCount, setImagesCalls>>

---------------------------------------------------------------------------
(* Bounds and input domains *)

MaxLen == 3          \* longest array the endpoint returns

Null == "<null>"            \* the null of a string | null cell
Undefined == "<undefined>"  \* an optional field that is absent
None == <<>>                \* the null of a number | null cell
Some(i) == <<i>>

\* Image records as the endpoint may deliver them (interface GalleryImage).
RecA == [id |-> "a", src |-> "a.jpg", takenDate |-> "2024-03-05",
         createdTime |-> "2024-04-01"]
RecB == [id |-> "b", src |-> "b.jpg", takenDate |-> Undefined,
         createdTime |-> "2024-04-01"]
RecC == [id |-> "c", src |-> "", takenDate |-> Undefined,
         createdTime |-> Undefined]
\* A record whose takenDate is no parsable date.
RecD == [id |-> "d", src |-> "d.jpg", takenDate |-> "not a date",
         createdTime |-> "2024-04-01"]
\* A record delivered without src.
RecE == [id |-> "e", src |-> Undefined, takenDate |-> "2024-03-05",
         createdTime |-> Undefined]
\* A record delivered with "src": null.
RecF == [id |-> "f", src |-> Null, takenDate |-> Undefined,
         createdTime |-> "2024-04-01"]
Records == {RecA, RecB, RecC, RecD, RecE, RecF}
\* A JSON null where a record is expected.
NullElem == [id |-> Null, src |-> Null, takenDate |-> Null, createdTime |-> Null]
Elems == Records \cup {NullElem}

RECURSIVE SeqsUpTo(_, _)
SeqsUpTo(S, n) ==
    IF n = 0 THEN {<<>>}
    ELSE LET shorter == SeqsUpTo(S, n - 1)
         IN shorter \cup {Append(s, e) : s \in {t \in shorter : Len(t) = n - 1}, e \in S}

\* Parsed JSON bodies: an array of elements, or null.
Bodies == {[kind |-> "array", items |-> s] : s \in SeqsUpTo(Elems, MaxLen)}
              \cup {[kind |-> "null", items |-> <<>>]}

\* Thrown values: isError is `err instanceof Error`.
TypeErrorFetch == [isError |-> TRUE, message |-> "Failed to fetch"]
EmptyError == [isError |-> TRUE, message |-> ""]
NonError == [isError |-> FALSE, message |-> Undefined]
SyntaxErrorJson == [isError |-> TRUE, message |-> "Unexpected token < in JSON at position 0"]
TypeErrorNull == [isError |-> TRUE, message |-> "Cannot read properties of null"]
Rejections == {TypeErrorFetch, EmptyError, NonError}

Responses == {[status |-> 200, statusText |-> "OK"],
              [status |-> 404, statusText |-> ""],
              [status |-> 500, statusText |-> "Internal Server Error"]}

Pending == [state |-> "pending"]
NotStarted == [state |-> "none"]
Resolved(v) == [state |-> "resolved", value |-> v]
Rejected(e) == [state |-> "rejected", reason |-> e]

Keys == {"Escape", "ArrowLeft", "ArrowRight", "Enter"}
Directions == {"prev", "next"}

Event(type, index, key) == [type |-> type, index |-> index, key |-> key]

---------------------------------------------------------------------------
(* Pure helpers *)

\* JavaScript truthiness of a string | null | undefined value.
Truthy(s) == s # Null /\ s # Undefined /\ s # ""

\* response.ok
ResponseOk(r) == r.status >= 200 /\ r.status <= 299

HttpErrorStatusOnly(r) ==
    [isError |-> TRUE,
     message |-> "Failed to fetch images: " \o ToString(r.status)]

\* new Error(`Failed to fetch images: ${response.status} ${response.statusText}`)
HttpError(r) ==
    [isError |-> TRUE,
     message |-> "Failed to fetch images: " \o ToString(r.status) \o " " \o r.statusText]

\* err instanceof Error ? err.message : 'Failed to load gallery images'
ErrorMessage(err) ==
    IF err.isError THEN err.message ELSE "Failed to load gallery images"


LogLimit == 5        \* data.slice(0, 5)

Min(a, b) == IF a < b THEN a ELSE b

\* The debug logging of the parsed body throws a TypeError when the body is
\* null (data.length) or one of the first LogLimit elements is null (img.title).
LogThrows(data) ==
    \/ data.kind = "null"
    \/ \E k \in 1..Min(LogLimit, Len(data.items)) : data.items[k] = NullElem

---------------------------------------------------------------------------
(* Lightbox controller.  A lightbox value is the pair of cells              *)
(* [selectedImage, selectedImageIndex]; a closure is what a render's         *)
(* callbacks captured: [selectedImage, selectedImageIndex, images].          *)

Lightbox(src, idx) == [selectedImage |-> src, selectedImageIndex |-> idx]

CurrentLightbox == Lightbox(selectedImage, selectedImageIndex)

Closure(src, idx, imgs) ==
    [selectedImage |-> src, selectedImageIndex |-> idx, images |-> imgs]

CurrentClosure == Closure(selectedImage, selectedImageIndex, images)

\* openImage(src, index)
openImageOneBased(src, index) == Lightbox(src, Some(index + 1))

openImage(src, index) == Lightbox(src, Some(index))

\* closeImage()
closeImage == Lightbox(Null, None)

\* The wraparound arithmetic of navigateImage, on index i of n images.
NewIndexClamped(i, n, direction) ==
    IF direction = "prev"
    THEN (IF i > 0 THEN i - 1 ELSE 0)
    ELSE (IF i < n - 1 THEN i + 1 ELSE n - 1)

NewIndexUnwrapped(i, n, direction) ==
    IF direction = "prev" THEN i - 1 ELSE i + 1

NewIndex(i, n, direction) ==
    IF direction = "prev"
    THEN (IF i > 0 THEN i - 1 ELSE n - 1)
    ELSE (IF i < n - 1 THEN i + 1 ELSE 0)

navigateImageKeepsSrc(c, direction, lb) ==
    IF c.selectedImageIndex = None \/ Len(c.images) = 0
    THEN lb
    ELSE Lightbox(c.images[c.selectedImageIndex[1] + 1].src,
                  Some(NewIndex(c.selectedImageIndex[1], Len(c.images), direction)))

\* navigateImage(direction) as memoized by the render with closure c; lb is
\* the lightbox value it leaves when it returns early.
navigateImage(c, direction, lb) ==
    IF c.selectedImageIndex = None \/ Len(c.images) = 0
    THEN lb
    ELSE LET newIndex == NewIndex(c.selectedImageIndex[1], Len(c.images), direction)
         IN IF newIndex + 1 \in DOMAIN c.images
            THEN Lightbox(c.images[newIndex + 1].src, Some(newIndex))
            ELSE lb  \* images[newIndex] is undefined: reading .src throws

\* navigateImage(direction) of the render with closure c throws: it passed
\* its guard and reads .src of an images[newIndex] that is undefined.
NavigateThrows(c, direction) ==
    /\ ~(c.selectedImageIndex = None \/ Len(c.images) = 0)
    /\ NewIndex(c.selectedImageIndex[1], Len(c.images), direction) + 1
           \notin DOMAIN c.images

handleKeyDownOpensFirst(c, key, lb) ==
    IF key = "Escape" THEN closeImage
    ELSE IF key \in {"ArrowLeft", "ArrowRight"}
    THEN (IF c.selectedImageIndex = None /\ Len(c.images) > 0
          THEN openImage(c.images[1].src, 0)
          ELSE navigateImage(c, IF key = "ArrowLeft" THEN "prev" ELSE "next", lb))
    ELSE lb

\* handleKeyDown(e) of the render with closure c.
handleKeyDown(c, key, lb) ==
    IF ~Truthy(c.selectedImage) THEN lb
    ELSE IF key = "Escape" THEN closeImage
    ELSE IF key = "ArrowLeft" THEN navigateImage(c, "prev", lb)
    ELSE IF key = "ArrowRight" THEN navigateImage(c, "next", lb)
    ELSE lb

\* window dispatches a keydown to every attached listener, in order.
RECURSIVE DispatchKeyDown(_, _, _)
DispatchKeyDown(ls, key, lb) ==
    IF ls = <<>> THEN lb
    ELSE DispatchKeyDown(Tail(ls), key, handleKeyDown(Head(ls), key, lb))

RemoveListenerKeeps(ls, h) == ls

\* window.removeEventListener('keydown', h): removes one attached h.
RECURSIVE RemoveListener(_, _)
RemoveListener(ls, h) ==
    IF ls = <<>> THEN <<>>
    ELSE IF Head(ls) = h THEN Tail(ls)
    ELSE <<Head(ls)>> \o RemoveListener(Tail(ls), h)

\* The keyboard effect with dependencies [selectedImage, closeImage,
\* navigateImage]: when the closure changed, the cleanup of the previous
\* render removes its listener and the new handler is attached.
KeyboardEffect(ls, old, new) ==
    IF old = new THEN ls
    ELSE Append(RemoveListener(ls, old), new)

---------------------------------------------------------------------------
(* What the component renders *)

\* new Date(dateString) for the date strings of the records: <<year, month,
\* day>>, or <<>> for an Invalid Date.  The day is the one of the string: the
\* shift a time zone west of UTC applies to a date-only string is left out.
ParseDate(dateString) ==
    CASE dateString = "2024-03-05" -> <<2024, 3, 5>>
      [] dateString = "2024-04-01" -> <<2024, 4, 1>>
      [] OTHER -> <<>>

MonthShort == <<"Jan", "Feb", "Mar", "Apr", "May", "Jun",
                "Jul", "Aug", "Sep", "Oct", "Nov", "Dec">>

\* formatDate(dateString): toLocaleDateString('en-US', {year: 'numeric',
\* month: 'short', day: 'numeric'}).
formatDate(dateString) ==
    IF ~Truthy(dateString) THEN ""
    ELSE LET date == ParseDate(dateString)
         IN IF date = <<>> THEN "Invalid Date"
            ELSE MonthShort[date[2]] \o " " \o ToString(date[3])
                     \o ", " \o ToString(date[1])

\* The date line of a tile: <<prefix, formatted date>>, or <<>> for no line.
TileDateLabel(img) ==
    IF Truthy(img.takenDate) THEN <<"Taken", formatDate(img.takenDate)>>
    ELSE IF Truthy(img.createdTime) THEN <<"Uploaded", formatDate(img.createdTime)>>
    ELSE <<>>

LightboxDateLabelUploadedFirst(imgs, index) ==
    IF Truthy(imgs[index + 1].createdTime)
    THEN <<"Uploaded", formatDate(imgs[index + 1].createdTime)>>
    ELSE IF Truthy(imgs[index + 1].takenDate)
    THEN <<"Taken", formatDate(imgs[index + 1].takenDate)>>
    ELSE <<>>

\* The date line of the overlay, for images[selectedImageIndex].
LightboxDateLabel(imgs, index) ==
    IF Truthy(imgs[index + 1].takenDate)
    THEN <<"Taken", formatDate(imgs[index + 1].takenDate)>>
    ELSE IF Truthy(imgs[index + 1].createdTime)
    THEN <<"Uploaded", formatDate(imgs[index + 1].createdTime)>>
    ELSE <<>>

Panel ==
    IF loading THEN "spinner"
    ELSE IF Truthy(error) THEN "error"
    ELSE IF Len(images) = 0 THEN "empty"
    ELSE "grid"

\* {selectedImage && selectedImageIndex !== null && ( ... )}
OverlayShown ==
    Panel = "grid" /\ Truthy(selectedImage) /\ selectedImageIndex # None

\* `${selectedImageIndex + 1} / ${images.length}`
Counter == ToString(selectedImageIndex[1] + 1) \o " / " \o ToString(Len(images))


---------------------------------------------------------------------------
(* The loader: fetchImages of the mount effect *)

Cells == [images |-> images, error |-> error, loading |-> loading]

\* catch (err) { setError(...) } finally { setLoading(false) }
CatchFinallyNoFinally(err, st) ==
    [st EXCEPT !.error = ErrorMessage(err)]

CatchFinally(err, st) ==
    [st EXCEPT !.error = ErrorMessage(err), !.loading = FALSE]

\* setImages(data) ... finally { setLoading(false) }
SetImagesFinally(data, st) ==
    [st EXCEPT !.images = data.items, !.loading = FALSE]

\* The cells after a step of the loader, the render of the new state and
\* the effects of that render (none when the component is gone).  The
\* loader tests nothing before it calls the setters: they are called, and
\* the cells written, whether or not the component is still mounted.
Commit(st) ==
    /\ images' = st.images
    /\ error' = st.error
    /\ loading' = st.loading
    /\ listeners' = IF mounted
                    THEN KeyboardEffect(listeners, CurrentClosure,
                                        Closure(selectedImage, selectedImageIndex, st.images))
                    ELSE listeners
    /\ UNCHANGED <<selectedImage, selectedImageIndex, mounted>>

Init ==
    /\ images = <<>>
    /\ selectedImage = Null
    /\ selectedImageIndex = None
    /\ loading = TRUE
    /\ error = Null
    /\ mounted = TRUE
    /\ pc = "init"
    /\ fetchPromise = NotStarted
    /\ jsonPromise = NotStarted
    /\ loaderPromise = NotStarted
    /\ caught = <<>>
    /\ fetchCount = 0
    /\ setImagesCalls = 0
    /\ listeners = <<>>
    /\ lastEvent = Event("construct", 0, "")

\* The effects of the first render: fetchImages() runs to its first await
\* (setLoading(true), fetch issued) and the keydown listener is attached.
MountEffects ==
    /\ mounted /\ pc = "init"
    /\ loading' = TRUE
    /\ fetchPromise' = Pending
    /\ fetchCount' = fetchCount + 1
    /\ loaderPromise' = Pending
    /\ pc' = "awaitFetch"
    /\ listeners' = Append(listeners, CurrentClosure)
    /\ lastEvent' = Event("mount", 0, "")
    /\ UNCHANGED <<images, selectedImage, selectedImageIndex, error, mounted,
                   jsonPromise, caught, setImagesCalls>>

\* The network settles the request: a response (any status) or a rejection.
FetchResolves(r) ==
    /\ pc = "awaitFetch" /\ fetchPromise = Pending
    /\ fetchPromise' = Resolved(r)
    /\ lastEvent' = Event("fetchResolved", 0, "")
    /\ UNCHANGED <<images, selectedImage, selectedImageIndex, loading, error,
                   mounted, pc, jsonPromise, loaderPromise, caught, fetchCount,
                   setImagesCalls, listeners>>

FetchRejects(e) ==
    /\ pc = "awaitFetch" /\ fetchPromise = Pending
    /\ fetchPromise' = Rejected(e)
    /\ lastEvent' = Event("fetchRejected", 0, "")
    /\ UNCHANGED <<images, selectedImage, selectedImageIndex, loading, error,
                   mounted, pc, jsonPromise, loaderPromise, caught, fetchCount,
                   setImagesCalls, listeners>>

\* fetchImages resumes after `await fetch(...)`.
AfterFetch ==
    /\ pc = "awaitFetch" /\ fetchPromise.state \in {"resolved", "rejected"}
    /\ lastEvent' = Event("afterFetch", 0, "")
    /\ IF fetchPromise.state = "resolved" /\ ResponseOk(fetchPromise.value)
       THEN /\ pc' = "awaitJson"
            /\ jsonPromise' = Pending
            /\ UNCHANGED <<images, selectedImage, selectedImageIndex, loading,
                           error, mounted, loaderPromise, caught, listeners>>
       ELSE LET err == IF fetchPromise.state = "rejected"
                       THEN fetchPromise.reason
                       ELSE HttpError(fetchPromise.value)
            IN /\ Commit(CatchFinally(err, Cells))
               /\ caught' = <<err>>
               /\ pc' = "done"
               /\ loaderPromise' = Resolved("undefined")
               /\ UNCHANGED jsonPromise
    /\ UNCHANGED <<fetchPromise, fetchCount, setImagesCalls>>

\* The body is read and parsed, or the parse fails.
JsonResolves(data) ==
    /\ pc = "awaitJson" /\ jsonPromise = Pending
    /\ jsonPromise' = Resolved(data)
    /\ lastEvent' = Event("jsonResolved", 0, "")
    /\ UNCHANGED <<images, selectedImage, selectedImageIndex, loading, error,
                   mounted, pc, fetchPromise, loaderPromise, caught, fetchCount,
                   setImagesCalls, listeners>>

JsonRejects(e) ==
    /\ pc = "awaitJson" /\ jsonPromise = Pending
    /\ jsonPromise' = Rejected(e)
    /\ lastEvent' = Event("jsonRejected", 0, "")
    /\ UNCHANGED <<images, selectedImage, selectedImageIndex, loading, error,
                   mounted, pc, fetchPromise, loaderPromise, caught, fetchCount,
                   setImagesCalls, listeners>>

AfterJsonSetImagesFirst ==
    /\ pc = "awaitJson" /\ jsonPromise.state \in {"resolved", "rejected"}
    /\ lastEvent' = Event("afterJson", 0, "")
    /\ pc' = "done"
    /\ loaderPromise' = Resolved("undefined")
    /\ IF jsonPromise.state = "resolved" /\ jsonPromise.value.kind = "array"
       THEN /\ setImagesCalls' = setImagesCalls + 1
            /\ IF LogThrows(jsonPromise.value)
               THEN /\ Commit(CatchFinally(TypeErrorNull,
                                           SetImagesFinally(jsonPromise.value, Cells)))
                    /\ caught' = <<TypeErrorNull>>
               ELSE /\ Commit(SetImagesFinally(jsonPromise.value, Cells))
                    /\ UNCHANGED caught
       ELSE LET err == IF jsonPromise.state = "rejected"
                       THEN jsonPromise.reason
                       ELSE TypeErrorNull
            IN /\ Commit(CatchFinally(err, Cells))
               /\ caught' = <<err>>
               /\ UNCHANGED setImagesCalls
    /\ UNCHANGED <<fetchPromise, jsonPromise, fetchCount>>

\* fetchImages resumes after `await response.json()` and runs to its end.
AfterJson ==
    /\ pc = "awaitJson" /\ jsonPromise.state \in {"resolved", "rejected"}
    /\ lastEvent' = Event("afterJson", 0, "")
    /\ pc' = "done"
    /\ loaderPromise' = Resolved("undefined")
    /\ IF jsonPromise.state = "resolved" /\ ~LogThrows(jsonPromise.value)
       THEN /\ Commit(SetImagesFinally(jsonPromise.value, Cells))
            /\ setImagesCalls' = setImagesCalls + 1
            /\ UNCHANGED caught
       ELSE LET err == IF jsonPromise.state = "rejected"
                       THEN jsonPromise.reason
                       ELSE TypeErrorNull
            IN /\ Commit(CatchFinally(err, Cells))
               /\ caught' = <<err>>
               /\ UNCHANGED setImagesCalls
    /\ UNCHANGED <<fetchPromise, jsonPromise, fetchCount>>

---------------------------------------------------------------------------
(* User events *)

\* A handler left the lightbox cells at lb: the render and its effects.
SetLightbox(lb, ev) ==
    /\ selectedImage' = lb.selectedImage
    /\ selectedImageIndex' = lb.selectedImageIndex
    /\ listeners' = IF mounted
                    THEN KeyboardEffect(listeners, CurrentClosure,
                                        Closure(lb.selectedImage, lb.selectedImageIndex, images))
                    ELSE listeners
    /\ lastEvent' = ev
    /\ UNCHANGED <<images, loading, error, mounted, loaderVars>>

\* img.src || ''
SrcOrEmpty(img) == IF Truthy(img.src) THEN img.src ELSE ""

\* onClick of tile k of the grid (the overlay, when shown, covers the grid).
TileClick(k) ==
    /\ mounted /\ Panel = "grid" /\ ~OverlayShown
    /\ k \in 0..(Len(images) - 1)
    /\ SetLightbox(openImage(SrcOrEmpty(images[k + 1]), k), Event("tileClick", k, ""))

NavClickPropagates(direction) ==
    /\ mounted /\ OverlayShown
    /\ SetLightbox(closeImage, Event(direction, 0, ""))

\* onClick of the previous / next button of the overlay.
NavClick(direction) ==
    /\ mounted /\ OverlayShown
    /\ SetLightbox(navigateImage(CurrentClosure, direction, CurrentLightbox),
                   Event(direction, 0, ""))

\* onClick of the close button of the overlay.
CloseClick ==
    /\ mounted /\ OverlayShown
    /\ SetLightbox(closeImage, Event("close", 0, ""))

\* onClick of the backdrop.
BackdropClick ==
    /\ mounted /\ OverlayShown
    /\ SetLightbox(closeImage, Event("backdrop", 0, ""))

\* A click on the image area: stopPropagation and nothing else.
ImageAreaClick ==
    /\ mounted /\ OverlayShown
    /\ SetLightbox(CurrentLightbox, Event("imageArea", 0, ""))

\* A keydown on window.
KeyDown(key) ==
    /\ pc # "init"
    /\ SetLightbox(DispatchKeyDown(listeners, key, CurrentLightbox),
                   Event("keydown", 0, key))

\* The component is torn down: the cleanup of the keyboard effect runs; the
\* mount effect returned no cleanup.
Unmount ==
    /\ mounted /\ pc # "init"
    /\ mounted' = FALSE
    /\ listeners' = RemoveListener(listeners, CurrentClosure)
    /\ lastEvent' = Event("unmount", 0, "")
    /\ UNCHANGED <<images, selectedImage, selectedImageIndex, loading, error,
                   loaderVars>>

\* "Try Again" of the error panel: window.location.reload() discards the page.
TryAgain ==
    /\ mounted /\ Panel = "error"
    /\ mounted' = FALSE
    /\ listeners' = <<>>
    /\ lastEvent' = Event("reload", 0, "")
    /\ UNCHANGED <<images, selectedImage, selectedImageIndex, loading, error,
                   loaderVars>>

Next ==
    \/ MountEffects
    \/ \E r \in Responses : FetchResolves(r)
    \/ \E e \in Rejections : FetchRejects(e)
    \/ AfterFetch
    \/ \E data \in Bodies : JsonResolves(data)
    \/ JsonRejects(SyntaxErrorJson)
    \/ AfterJson
    \/ \E k \in 0..(MaxLen) : TileClick(k)
    \/ \E d \in Directions : NavClick(d)
    \/ CloseClick
    \/ BackdropClick
    \/ ImageAreaClick
    \/ \E key \in Keys : KeyDown(key)
    \/ Unmount
    \/ TryAgain

Spec == Init /\ [][Next]_vars

\* The event loop runs a continuation whose promise has settled.
FairSpec == Spec /\ WF_vars(AfterFetch) /\ WF_vars(AfterJson)


---------------------------------------------------------------------------
(* Claims *)

\* The lightbox of the data model: Open(i) is selectedImageIndex = i.
Closed == selectedImageIndex = None
OpenAt(i) == selectedImageIndex = Some(i)

\* C1: in every reachable state, if the lightbox is Open(i) then
\* 0 <= i < length(images).
C1_OpenIndexInRange ==
    selectedImageIndex # None =>
        /\ selectedImageIndex[1] >= 0
        /\ selectedImageIndex[1] < Len(images)

\* C1 witness: previous from index 0 of three images wrapped to index 2.
C1_Witness ==
    /\ lastEvent.type = "prev"
    /\ Len(images) = 3
    /\ OpenAt(2)

\* The index the claim C2 expects of navigate(direction) from i of n.
C2_Expected(i, n, direction) ==
    IF direction = "prev"
    THEN (IF i = 0 THEN n - 1 ELSE i - 1)
    ELSE (IF i = n - 1 THEN 0 ELSE i + 1)

\* C2: a click on previous / next in Open(i) over n >= 1 images leaves the
\* overlay displayed at the wrapped index, whatever record is there, and the
\* counter reads "{newIndex + 1} / {n}".
C2_NavigateStaysOpen ==
    [][\A d \in Directions :
          (lastEvent'.type = d /\ selectedImageIndex # None /\ Len(images) >= 1) =>
              LET newIndex == C2_Expected(selectedImageIndex[1], Len(images), d)
              IN /\ selectedImageIndex' = Some(newIndex)
                 /\ OverlayShown'
                 /\ Counter' = ToString(newIndex + 1) \o " / " \o ToString(Len(images))
      ]_vars

\* C3: with a non-empty loaded sequence and the lightbox Closed, a click on
\* tile k leaves the lightbox Open(k) with the overlay displayed and the
\* counter reading "{k + 1} / {length}", for every k and every record.
C3_TileClickOpens ==
    [][\A k \in 0..MaxLen :
          (lastEvent'.type = "tileClick" /\ lastEvent'.index = k /\ Closed) =>
              /\ selectedImageIndex' = Some(k)
              /\ OverlayShown'
              /\ Counter' = ToString(k + 1) \o " / " \o ToString(Len(images))
      ]_vars

\* C4: once the component is unmounted, images, error and loading are not
\* written any more.
C4_NoWriteAfterTeardown ==
    [][~mounted => UNCHANGED <<images, error, loading>>]_vars

\* C5: when the loader has finished after a failure, the rendered view is
\* the Error panel and the loader's promise is not rejected.
C5_FailureShowsErrorPanel ==
    (mounted /\ pc = "done" /\ caught # <<>>) =>
        /\ Panel = "error"
        /\ loaderPromise.state # "rejected"

\* C6: after a non-2xx response of status s and text t the error is exactly
\* "Failed to fetch images: {s} {t}", the error panel renders it, and
\* images is empty with setImages never called.
C6_HttpErrorMessage ==
    (pc = "done" /\ fetchPromise.state = "resolved"
                 /\ ~(fetchPromise.value.status \in 200..299)) =>
        /\ error = "Failed to fetch images: "
                       \o ToString(fetchPromise.value.status) \o " "
                       \o fetchPromise.value.statusText
        /\ fetchPromise.value.status = 500 =>
               error = "Failed to fetch images: 500 Internal Server Error"
        /\ mounted => Panel = "error"
        /\ images = <<>>
        /\ setImagesCalls = 0

\* C6 witness: the loader finished on a 500 response; the panel shows it.
C6_Witness ==
    /\ mounted /\ pc = "done"
    /\ fetchPromise.state = "resolved"
    /\ fetchPromise.value.status = 500
    /\ Panel = "error"
    /\ error = "Failed to fetch images: 500 Internal Server Error"


\* The load state of the data model, read from the cells.
LoadState ==
    IF loading THEN "Loading"
    ELSE IF error # Null THEN "Error"
    ELSE "Loaded"

\* The request has settled: rejected, answered with a non-2xx status, or
\* answered and its body parsed or found unparsable.
RequestSettled ==
    \/ fetchPromise.state = "rejected"
    \/ fetchPromise.state = "resolved" /\ ~ResponseOk(fetchPromise.value)
    \/ jsonPromise.state \in {"resolved", "rejected"}

RECURSIVE NavigateTimes(_, _, _, _)
NavigateTimes(lb, imgs, direction, k) ==
    IF k = 0 THEN lb
    ELSE NavigateTimes(
             navigateImage(Closure(lb.selectedImage, lb.selectedImageIndex, imgs),
                           direction, lb),
             imgs, direction, k - 1)

\* C8: over n >= 1 loaded images, from every start index i, n applications
\* of navigate(prev) return to Open(i) and so do n of navigate(next); for
\* n = 1 one application stays at index 0.
C8_NavigateCycle ==
    \A i \in 0..(Len(images) - 1) : \A d \in Directions :
        LET start == openImage(SrcOrEmpty(images[i + 1]), i)
        IN /\ NavigateTimes(start, images, d, Len(images)).selectedImageIndex = Some(i)
           /\ Len(images) = 1 =>
                  NavigateTimes(start, images, d, 1).selectedImageIndex = Some(0)

\* C8 witness: next from the last of three images wrapped to index 0.
C8_Witness ==
    /\ lastEvent.type = "next"
    /\ Len(images) = 3
    /\ OpenAt(0)

\* C9: while the lightbox is Closed a keydown of any key leaves the
\* component state unchanged.
C9_KeysIgnoredWhenClosed ==
    [][(lastEvent'.type = "keydown" /\ Closed) =>
          UNCHANGED <<images, selectedImage, selectedImageIndex, loading, error>>
      ]_vars

\* C9 witness: ArrowRight was pressed over the grid with the lightbox Closed.
C9_Witness ==
    /\ mounted /\ Panel = "grid" /\ Closed
    /\ lastEvent.type = "keydown" /\ lastEvent.key = "ArrowRight"

\* What the on-screen control that corresponds to a key does in this state.
C10_ControlEffect(key) ==
    IF key = "Escape" THEN closeImage
    ELSE IF key = "ArrowLeft" THEN navigateImage(CurrentClosure, "prev", CurrentLightbox)
    ELSE IF key = "ArrowRight" THEN navigateImage(CurrentClosure, "next", CurrentLightbox)
    ELSE CurrentLightbox

\* C10: while the lightbox is Open(i), Escape does what close() does,
\* ArrowLeft what navigate(prev) does, ArrowRight what navigate(next) does,
\* on the current index, and every other key changes nothing.
C10_KeysMatchControls ==
    [][(lastEvent'.type = "keydown" /\ mounted /\ ~Closed) =>
          /\ CurrentLightbox' = C10_ControlEffect(lastEvent'.key)
          /\ UNCHANGED <<images, loading, error>>
      ]_vars

\* C11: at every moment at most one keydown listener of the component is
\* attached to window, while mounted it is the handler of the current
\* render, and after teardown none remains.
C11_OneListener ==
    /\ Len(listeners) <= 1
    /\ (mounted /\ pc # "init") => listeners = <<CurrentClosure>>
    /\ ~mounted => listeners = <<>>

\* C11 witness: the listener was re-registered for the render that followed
\* a navigation, and it is the only one.
C11_Witness ==
    /\ mounted
    /\ lastEvent.type = "next"
    /\ OpenAt(1)
    /\ listeners = <<CurrentClosure>>

\* An optional field that is present, as the claim C12 means it.
C12_Present(field) == field # Undefined /\ field # Null /\ field # ""

\* The date line the claim C12 expects for a record.
C12_LabelAsClaimed(img, label) ==
    /\ C12_Present(img.takenDate) => label = <<"Taken", formatDate(img.takenDate)>>
    /\ (~C12_Present(img.takenDate) /\ C12_Present(img.createdTime)) =>
           label = <<"Uploaded", formatDate(img.createdTime)>>
    /\ (~C12_Present(img.takenDate) /\ ~C12_Present(img.createdTime)) => label = <<>>
    /\ (C12_Present(img.takenDate) /\ C12_Present(img.createdTime)) =>
           label[1] # "Uploaded"
    /\ img = RecA => label = <<"Taken", "Mar 5, 2024">>
    /\ img = RecB => label = <<"Uploaded", "Apr 1, 2024">>

\* C12: in the grid tile and in the lightbox alike, the date line is "Taken"
\* with the formatted takenDate if takenDate is present, else "Uploaded" with
\* the formatted createdTime if that is present, else there is no date line.
C12_DateLabelPrecedence ==
    /\ (mounted /\ Panel = "grid") =>
           \A k \in 1..Len(images) : C12_LabelAsClaimed(images[k], TileDateLabel(images[k]))
    /\ (mounted /\ OverlayShown) =>
           LET label == LightboxDateLabel(images, selectedImageIndex[1])
           IN /\ C12_LabelAsClaimed(images[selectedImageIndex[1] + 1], label)
              /\ label = TileDateLabel(images[selectedImageIndex[1] + 1])

\* C12 witness: the overlay shows a record with both dates set.
C12_Witness ==
    /\ mounted /\ OverlayShown
    /\ images[selectedImageIndex[1] + 1] = RecA
    /\ LightboxDateLabel(images, selectedImageIndex[1]) = <<"Taken", "Mar 5, 2024">>

\* C13: when the endpoint returned the empty array the empty-state panel is
\* rendered with no tiles and no user event ever opens the lightbox; and
\* navigate throws for no length of images, 0 included.
C13_EmptyNeverOpens ==
    /\ (pc = "done" /\ setImagesCalls = 1 /\ jsonPromise.value.items = <<>>) =>
           /\ images = <<>>
           /\ mounted => Panel = "empty"
           /\ ~OverlayShown
           /\ Closed /\ selectedImage = Null
    /\ \A d \in Directions :
           /\ ~NavigateThrows(CurrentClosure, d)
           /\ \A i \in 0..(Len(images) - 1) :
                  ~NavigateThrows(Closure(selectedImage, Some(i), images), d)
           /\ ~NavigateThrows(Closure(selectedImage, selectedImageIndex, <<>>), d)
           /\ ~NavigateThrows(Closure(selectedImage, Some(0), <<>>), d)

\* C13 witness: the empty-state panel is up and ArrowRight was pressed on it.
C13_Witness ==
    /\ mounted /\ Panel = "empty"
    /\ setImagesCalls = 1
    /\ lastEvent.type = "keydown" /\ lastEvent.key = "ArrowRight"
    /\ Closed

\* C14: close() leaves Closed from every Open(i) and changes nothing when
\* already Closed; the close control and a backdrop click both do close();
\* a click on the image area or on previous / next never leaves Closed.
C14_CloseBehaviour ==
    /\ [](Closed => CurrentLightbox = closeImage)
    /\ [][/\ lastEvent'.type \in {"close", "backdrop"} =>
                (CurrentLightbox' = closeImage /\ Closed')
          /\ (lastEvent'.type \in {"imageArea", "prev", "next"} /\ ~Closed) => ~Closed'
          /\ lastEvent'.type = "imageArea" => CurrentLightbox' = CurrentLightbox
       ]_vars

\* C14 witness: a backdrop click closed the lightbox.
C14_Witness ==
    /\ mounted /\ Panel = "grid"
    /\ lastEvent.type = "backdrop"
    /\ Closed

\* C15: selectedImage is null exactly when selectedImageIndex is null, and
\* whenever selectedImageIndex = i, selectedImage equals the src of
\* images[i].
C15_CellsConsistent ==
    /\ (selectedImage = Null) <=> (selectedImageIndex = None)
    /\ selectedImageIndex # None =>
           selectedImage = images[selectedImageIndex[1] + 1].src

\* C15 as amended: when selectedImageIndex is null so is selectedImage, and a
\* truthy selectedImage comes with a non-null index; whenever
\* selectedImageIndex = i, selectedImage is the src of images[i], or '' when
\* that src is falsy (missing, null or empty); so an overlay that is
\* displayed shows the src of the image its counter refers to.
C15_CellsConsistentAmended ==
    /\ selectedImageIndex = None => selectedImage = Null
    /\ Truthy(selectedImage) => selectedImageIndex # None
    /\ selectedImageIndex # None =>
           LET src == images[selectedImageIndex[1] + 1].src
           IN \/ selectedImage = src
              \/ ~Truthy(src) /\ selectedImage = ""
    /\ OverlayShown => selectedImage = images[selectedImageIndex[1] + 1].src

\* C15 witness: after open and navigate the overlay shows the second image.
C15_Witness ==
    /\ mounted /\ OverlayShown
    /\ lastEvent.type = "next"
    /\ OpenAt(1)
    /\ images[1].src # images[2].src
    /\ selectedImage = images[2].src

\* C16: a non-null error and a non-empty images never hold together:
\* setImages is reached only when nothing was thrown, and an exception thrown
\* before it (non-2xx, unparsable body, failure while logging) leaves images
\* empty.
C16_ErrorExcludesImages ==
    /\ ~(error # Null /\ Len(images) > 0)
    /\ setImagesCalls > 0 => (caught = <<>> /\ error = Null)
    /\ caught # <<>> => (images = <<>> /\ setImagesCalls = 0 /\ error # Null)

\* C16 witness: logging a parsed, non-empty body threw; images stayed empty.
C16_Witness ==
    /\ pc = "done"
    /\ caught = <<TypeErrorNull>>
    /\ jsonPromise.state = "resolved"
    /\ Len(jsonPromise.value.items) = 2
    /\ images = <<>>
    /\ error = "Cannot read properties of null"

====
